---- MODULE Spec2Model ----
(***************************************************************************)
(* A model of the WITH-clause (CTE) and window-function builders of the    *)
(* gen fork: with.go (WithQuery, WindowFunction, OverClause), cte.go       *)
(* (cteViewDO), window.go (windowViewDO, buildWindowExpression,            *)
(* buildFrameClause) and field/window.go, field/expr.go.                   *)
(*                                                                         *)
(* SQL text is modelled as a sequence of lexemes: a word, a single space   *)
(* " ", ",", "(", ")", "?" or "*".  Go string concatenation is sequence    *)
(* concatenation, so two texts are equal exactly when their lexeme         *)
(* sequences are equal.                                                    *)
(*                                                                         *)
(* The model follows one builder call chain at a time: `chain` names the   *)
(* builder that the chain in progress works on; a constructor starts a new *)
(* chain.  `out` holds what the last terminal (compiling) call returned;   *)
(* `hist` is a history variable: per Window call of a view, the spec the   *)
(* caller configured after it.  `gor` holds two goroutines that build and   *)
(* compile concurrently, with the objects they work on.                    *)
(***************************************************************************)
EXTENDS Integers, Sequences, FiniteSets, TLC

VARIABLES chain, wq, cv, wf, wv, out, hist, gor

vars == <<chain, wq, cv, wf, wv, out, hist, gor>>

(* Bounds of the model. *)
MaxCtes == 2
MaxCols == 2
MaxWindows == 2

(***************************************************************************)
(* Text helpers.                                                           *)
(***************************************************************************)
SP == " "

RECURSIVE Join(_, _)
Join(parts, sep) ==
    IF parts = <<>> THEN <<>>
    ELSE IF Len(parts) = 1 THEN parts[1]
    ELSE parts[1] \o sep \o Join(Tail(parts), sep)

RECURSIVE Flatten(_)
Flatten(seqs) ==
    IF seqs = <<>> THEN <<>> ELSE Head(seqs) \o Flatten(Tail(seqs))

RECURSIVE CountOf(_, _)
CountOf(text, lexeme) ==
    IF text = <<>> THEN 0
    ELSE (IF Head(text) = lexeme THEN 1 ELSE 0) + CountOf(Tail(text), lexeme)

(* A Go string spliced into a text: the empty string adds nothing. *)
Word(str) == IF str = "" THEN <<>> ELSE <<str>>

SeqsUpTo(S, n) == UNION {[1..k -> S] : k \in 0..n}

(***************************************************************************)
(* Parameter values (Go interface{}): a bound literal, a clause.Column, or *)
(* a clause.Expr carrying its own SQL and Vars.  A literal's text is its   *)
(* rendering in explained SQL.                                             *)
(***************************************************************************)
NoE == [kind |-> "nil", text |-> "", SQL |-> <<>>, Vars |-> <<>>]
Lit(t) == [kind |-> "lit", text |-> t, SQL |-> <<>>, Vars |-> <<>>]
Column(n) == [kind |-> "col", text |-> n, SQL |-> <<>>, Vars |-> <<>>]
ClauseExpr(sql, vs) == [kind |-> "expr", text |-> "", SQL |-> sql, Vars |-> vs]

(***************************************************************************)
(* field.expr: a column plus an optional clause expression.                *)
(***************************************************************************)
NewField(name) == [col |-> name, e |-> NoE]
NewExpr(expression) == [col |-> "", e |-> expression]
setE(x, expression) == [x EXCEPT !.e = expression]
RawExpr(x) == IF x.e = NoE THEN Column(x.col) ELSE x.e
ColumnName(x) == x.col
Desc(x) == setE(x, ClauseExpr(<<"?", SP, "DESC">>, <<RawExpr(x)>>))
Asc(x) == setE(x, ClauseExpr(<<"?", SP, "ASC">>, <<RawExpr(x)>>))
(* Every field.Expr embeds IColumnName, so the type assertion              *)
(* expr.(field.IColumnName) always succeeds.                               *)
IsIColumnName(x) == TRUE

(***************************************************************************)
(* Sub-queries.  A SubQuery is known to the builders only through its      *)
(* underlying *gorm.DB: `sql` and `vars` are what compiling it yields;     *)
(* `built` says whether a finisher already ran on that very DB, which is   *)
(* the only way its Statement buffer holds text.                           *)
(***************************************************************************)
QFiltered ==
    [sql |-> <<"SELECT", SP, "*", SP, "FROM", SP, "t", SP, "WHERE", SP, "unionid",
               SP, "IN", SP, "(", "?", ",", SP, "?", ")">>,
     vars |-> <<Lit("'u1'"), Lit("'u2'")>>,
     built |-> FALSE]
QRun ==
    [sql |-> <<"SELECT", SP, "*", SP, "FROM", SP, "r", SP, "WHERE", SP, "k", SP,
               "=", SP, "?">>,
     vars |-> <<Lit("7")>>,
     built |-> TRUE]
SubQueries == {QFiltered, QRun}
CteNames == {"ranked", "stats"}

(* Dialector.Explain: every placeholder replaced by its value's rendering. *)
RECURSIVE Explain(_, _)
Explain(sql, vs) ==
    IF sql = <<>> THEN <<>>
    ELSE IF Head(sql) = "?" /\ vs # <<>>
         THEN <<Head(vs).text>> \o Explain(Tail(sql), Tail(vs))
         ELSE <<Head(sql)>> \o Explain(Tail(sql), vs)

(* subDB.ToSQL(func(tx) { return tx.Find(..) }): a dry run on a fresh      *)
(* session, returning the explained SQL; subDB.Statement is untouched.     *)
ToSQL(q) == Explain(q.sql, q.vars)

(* subDB.Statement.SQL.String() and subDB.Statement.Vars.                  *)
StatementSQL(q) == IF q.built THEN q.sql ELSE <<>>
StatementVars(q) == IF q.built THEN q.vars ELSE <<>>

(* stmt.Quote(name) of the dialect. *)
Quote(name) == "\"" \o name \o "\""

(***************************************************************************)
(* What a terminal call returned.                                          *)
(***************************************************************************)
NoOut ==
    [op |-> "none", sql |-> <<>>, vars |-> <<>>, err |-> "nil",
     ctes |-> <<>>, base |-> <<>>, baseVars |-> <<>>, exprs |-> <<>>,
     args |-> <<>>]

(***************************************************************************)
(* The builders of with.go; a nil pointer is a record with nil = TRUE.     *)
(***************************************************************************)
WithClause(name, query) == [Name |-> name, Query |-> query]
NoWithQuery == [withClauses |-> <<>>]
NilFrameClause == [nil |-> TRUE, Type |-> "", Start |-> <<>>, End |-> <<>>]
FrameClause(type, start, end) ==
    [nil |-> FALSE, Type |-> type, Start |-> start, End |-> end]
NilOverClause ==
    [nil |-> TRUE, partitionBy |-> <<>>, orderBy |-> <<>>, frame |-> NilFrameClause]
NoWindowFunction == [Function |-> <<>>, overClause |-> NilOverClause]

(***************************************************************************)
(* window.go: WindowSpec, FrameSpec, FrameBound; the views.                *)
(***************************************************************************)
NilFrameBound == [nil |-> TRUE, Type |-> <<>>, Offset |-> NoE]
FrameBound(type, offset) == [nil |-> FALSE, Type |-> type, Offset |-> offset]
NilFrameSpec ==
    [nil |-> TRUE, Type |-> "", Start |-> FrameBound(<<>>, NoE), End |-> NilFrameBound]
FrameSpec(type, start, end) ==
    [nil |-> FALSE, Type |-> type, Start |-> start, End |-> end]
WindowSpec(partitionBy, orderBy, frame) ==
    [PartitionBy |-> partitionBy, OrderBy |-> orderBy, Frame |-> frame]
ZeroWindowSpec == WindowSpec(<<>>, <<>>, NilFrameSpec)
NoWindowView == [windowFuncs |-> <<>>, windowSpecs |-> <<>>]
NoDB == [Table |-> "", SQL |-> <<>>, Vars |-> <<>>]
NoCTEView ==
    [ctes |-> <<>>, windowFuncs |-> <<>>, windowSpecs |-> <<>>, fromCTE |-> "",
     db |-> NoDB]
NoHist == [other |-> FALSE, calls |-> <<>>]
Goroutines == {1, 2}
NoResult == [sql |-> <<>>, vars |-> <<>>]
NoGor ==
    [heap |-> <<>>,
     ref |-> [g \in Goroutines |-> 0],
     base |-> <<>>,
     pc |-> [g \in Goroutines |-> "idle"],
     add |-> [g \in Goroutines |-> <<>>],
     tmp |-> [g \in Goroutines |-> <<>>],
     res |-> [g \in Goroutines |-> NoResult],
     reads |-> [g \in Goroutines |-> {}],
     writes |-> [g \in Goroutines |-> {}]]

(* fmt.Sprintf("%s AS (%s)", name, sql) *)
SprintfAs(name, sql) == <<name, SP, "AS", SP, "(">> \o sql \o <<")">>

(* The loop of Select and From over w.withClauses: sql is first the        *)
(* explained SQL and is then overwritten by the Statement buffer, whose    *)
(* Vars are collected.                                                     *)
WithPartOf(withClause) ==
    LET subDB == withClause.Query
        sql0 == ToSQL(subDB)
        sql == StatementSQL(subDB)
    IN SprintfAs(withClause.Name, sql)
WithParts(withClauses) ==
    [i \in 1..Len(withClauses) |-> WithPartOf(withClauses[i])]
WithArgs(withClauses) ==
    Flatten([i \in 1..Len(withClauses) |-> StatementVars(withClauses[i].Query)])
WithSQL(withClauses) == <<"WITH", SP>> \o Join(WithParts(withClauses), <<",", SP>>)

(* buildExpr4Select for at most one plain column: the quoted column, no    *)
(* arguments.                                                              *)
buildExpr4Select(columns) ==
    [query |-> <<Quote(ColumnName(columns[1]))>>, args |-> <<>>]
SelectColumns == {<<>>, <<NewField("id")>>}

(* A DO.With that creates the list without the clause. *)
DO_With_NoClause(name, query) ==
    /\ chain' = "WithQuery"
    /\ wq' = [withClauses |-> <<>>]
    /\ wf' = NoWindowFunction
    /\ wv' = NoWindowView
    /\ cv' = NoCTEView
    /\ hist' = NoHist
    /\ out' = NoOut
    /\ gor' = NoGor

(* d.With(name, query) *)
DO_With(name, query) ==
    /\ chain' = "WithQuery"
    /\ wq' = [withClauses |-> <<WithClause(name, query)>>]
    /\ wf' = NoWindowFunction
    /\ wv' = NoWindowView
    /\ cv' = NoCTEView
    /\ hist' = NoHist
    /\ out' = NoOut
    /\ gor' = NoGor

(* A WithQuery.With that puts the new clause in front. *)
WithQuery_With_InFront(name, query) ==
    /\ chain = "WithQuery"
    /\ Len(wq.withClauses) < MaxCtes
    /\ wq' = [wq EXCEPT !.withClauses = <<WithClause(name, query)>> \o @]
    /\ out' = NoOut
    /\ UNCHANGED <<chain, cv, wf, wv, hist, gor>>

(* w.With(name, query): appends to the receiver and returns it. *)
WithQuery_With(name, query) ==
    /\ chain = "WithQuery"
    /\ Len(wq.withClauses) < MaxCtes
    /\ wq' = [wq EXCEPT !.withClauses = Append(@, WithClause(name, query))]
    /\ out' = NoOut
    /\ UNCHANGED <<chain, cv, wf, wv, hist, gor>>

(* w.Select(columns...): the Raw statement handed to the new Dao. *)
WithQuery_Select(columns) ==
    /\ chain = "WithQuery"
    /\ LET withSQL == WithSQL(wq.withClauses)
           allArgs == WithArgs(wq.withClauses)
           sel == buildExpr4Select(columns)
           base == IF Len(columns) > 0
                   THEN <<"SELECT", SP>> \o sel.query
                   ELSE <<"SELECT", SP, "*">>
           baseVars == IF Len(columns) > 0 THEN sel.args ELSE <<>>
       IN out' = [NoOut EXCEPT !.op = "WithQuery.Select",
                               !.args = <<columns>>,
                               !.sql = withSQL \o <<SP>> \o base,
                               !.vars = allArgs \o baseVars,
                               !.ctes = wq.withClauses,
                               !.base = base,
                               !.baseVars = baseVars]
    /\ UNCHANGED <<chain, wq, cv, wf, wv, hist, gor>>

(* stmt.AddVar(writer, vars...) of gorm.Statement for bound values: each   *)
(* value is appended to Vars and a placeholder is written, "," between.    *)
BindVars(vs) == Join([i \in 1..Len(vs) |-> <<"?">>], <<",">>)

(* builder.AddVar(builder, vars...): a gorm.Statement binds the values,    *)
(* the mock builder of the tests only collects them.                       *)
AddVar(builder, vs) ==
    IF builder.mock
    THEN [builder EXCEPT !.vars = @ \o vs]
    ELSE [builder EXCEPT !.sql = @ \o BindVars(vs), !.vars = @ \o vs]

(* builder.WriteString(str) *)
WriteString(builder, str) == [builder EXCEPT !.sql = @ \o str]

(* WithClauseExpr.Build(builder) *)
WithClauseExpr_Build(w, builder) == AddVar(WriteString(builder, w.SQL), w.Args)

(* Builders and expressions Build is called with. *)
Builders ==
    {[mock |-> m, sql |-> text, vars |-> vs] :
        m \in BOOLEAN,
        text \in {<<>>, <<"SELECT", SP, "*", SP, "FROM", SP, "t", SP, "WHERE", SP>>},
        vs \in {<<>>, <<Lit("9")>>}}
WithClauseExprs ==
    {[SQL |-> WithSQL(<<WithClause(name, query)>>), Args |-> args] :
        name \in CteNames, query \in SubQueries,
        args \in SeqsUpTo({Lit("'u1'"), Lit("'u2'")}, MaxCols)}

(* Filters a caller applies to the Dao returned by From. *)
NoFilter == [sql |-> <<>>, vars |-> <<>>]
RnEq1 == [sql |-> <<"rn", SP, "=", SP, "?">>, vars |-> <<Lit("1")>>]
Filters == {NoFilter, RnEq1}

(* w.From(cteName), an optional Where on the returned Dao, and the         *)
(* finisher building the statement.  WithClauseExpr implements only        *)
(* clause.Expression (Build), neither clause.Interface nor                 *)
(* StatementModifier, so db.Clauses files it as a WHERE condition.         *)
WithQuery_From(cteName, filter) ==
    /\ chain = "WithQuery"
    /\ LET withSQL == WithSQL(wq.withClauses)
           allArgs == WithArgs(wq.withClauses)
           table == <<"SELECT", SP, "*", SP, "FROM", SP, Quote(cteName)>>
           cond == WithClauseExpr_Build([SQL |-> withSQL, Args |-> allArgs],
                                        [mock |-> FALSE,
                                         sql |-> table \o <<SP, "WHERE", SP>>,
                                         vars |-> <<>>])
           base == IF filter = NoFilter THEN table
                   ELSE table \o <<SP, "WHERE", SP>> \o filter.sql
       IN out' = [NoOut EXCEPT !.op = "WithQuery.From",
                               !.args = <<cteName, filter>>,
                               !.sql = IF filter = NoFilter THEN cond.sql
                                       ELSE cond.sql \o <<SP, "AND", SP>> \o filter.sql,
                               !.vars = cond.vars \o filter.vars,
                               !.ctes = wq.withClauses,
                               !.base = base,
                               !.baseVars = filter.vars]
    /\ UNCHANGED <<chain, wq, cv, wf, wv, hist, gor>>

(***************************************************************************)
(* with.go: WindowFunction, OverClause, FrameClause.                       *)
(***************************************************************************)

(* Column expressions callers pass to PartitionBy / OrderBy. *)
Dept == NewField("department")
SalaryDesc == Desc(NewField("salary"))
FieldExprs == {Dept, SalaryDesc}
ColumnLists == SeqsUpTo(FieldExprs, MaxCols)

(* Expressions callers pass to the aggregate constructors. *)
Amount == NewField("amount")
RawAmount == NewExpr(ClauseExpr(<<"amount">>, <<>>))
AggregateArgs == {Amount, RawAmount}

(* Frame bound texts callers pass to Rows / Range; "" is a missing end. *)
StartTexts == {<<"UNBOUNDED", SP, "PRECEDING">>, <<"2", SP, "PRECEDING">>}
EndTexts == {<<>>, <<"CURRENT", SP, "ROW">>, <<"2", SP, "FOLLOWING">>}

(* fmt.Sprintf("%s", v) of a struct value. *)
SprintfS(v) == <<"{", v.text>> \o v.SQL \o <<"}">>

(* The exprStr of Count / Sum / Avg / Max / Min and the list items of      *)
(* buildSQL.                                                               *)
ExprStr(x) ==
    IF IsIColumnName(x) THEN Word(ColumnName(x)) ELSE SprintfS(RawExpr(x))

Aggregate(name, x) == <<name, "(">> \o ExprStr(x) \o <<")">>
RowNumber == <<"ROW_NUMBER", "(", ")">>
Rank == <<"RANK", "(", ")">>
DenseRank == <<"DENSE_RANK", "(", ")">>
Count(x) == Aggregate("COUNT", x)
Sum(x) == Aggregate("SUM", x)
Avg(x) == Aggregate("AVG", x)
Max(x) == Aggregate("MAX", x)
Min(x) == Aggregate("MIN", x)
Functions ==
    {RowNumber, Rank, DenseRank}
        \cup UNION {{Count(x), Sum(x), Avg(x), Max(x), Min(x)} : x \in AggregateArgs}

(* The partitions / orders loops of buildSQL. *)
ExprStrs(exprs) == [i \in 1..Len(exprs) |-> ExprStr(exprs[i])]

(* The frame part of buildSQL. *)
FrameSQL(frame) ==
    IF frame.End # <<>>
    THEN <<frame.Type, SP, "BETWEEN", SP>> \o frame.Start \o <<SP, "AND", SP>> \o frame.End
    ELSE <<frame.Type, SP>> \o frame.Start

buildSQL_OrderFirst(w) ==
    LET o == w.overClause
        p1 == IF Len(o.partitionBy) > 0
              THEN << <<"PARTITION", SP, "BY", SP>> \o Join(ExprStrs(o.partitionBy), <<",", SP>>) >>
              ELSE <<>>
        p2 == IF Len(o.orderBy) > 0
              THEN << <<"ORDER", SP, "BY", SP>> \o Join(ExprStrs(o.orderBy), <<",", SP>>) >>
              ELSE <<>>
        p3 == IF ~o.frame.nil THEN << FrameSQL(o.frame) >> ELSE <<>>
        parts == p2 \o p1 \o p3
    IN w.Function \o <<SP, "OVER", SP, "(">>
         \o (IF ~o.nil THEN Join(parts, <<SP>>) ELSE <<>>)
         \o <<")">>
(* WindowFunction.buildSQL() *)
buildSQL(w) ==
    LET o == w.overClause
        p1 == IF Len(o.partitionBy) > 0
              THEN << <<"PARTITION", SP, "BY", SP>> \o Join(ExprStrs(o.partitionBy), <<",", SP>>) >>
              ELSE <<>>
        p2 == IF Len(o.orderBy) > 0
              THEN << <<"ORDER", SP, "BY", SP>> \o Join(ExprStrs(o.orderBy), <<",", SP>>) >>
              ELSE <<>>
        p3 == IF ~o.frame.nil THEN << FrameSQL(o.frame) >> ELSE <<>>
        parts == p1 \o p2 \o p3
    IN w.Function \o <<SP, "OVER", SP, "(">>
         \o (IF ~o.nil THEN Join(parts, <<SP>>) ELSE <<>>)
         \o <<")">>

(* RowNumber(), Rank(), DenseRank(), Count(x) .. Min(x) *)
NewWindowFunction(function) ==
    /\ chain' = "WindowFunction"
    /\ wf' = [Function |-> function, overClause |-> NilOverClause]
    /\ wq' = NoWithQuery
    /\ wv' = NoWindowView
    /\ cv' = NoCTEView
    /\ hist' = NoHist
    /\ out' = NoOut
    /\ gor' = NoGor

(* A w.Over() that hands out a fresh clause on every call. *)
WindowFunction_Over_Reset ==
    /\ chain = "WindowFunction"
    /\ wf' = [wf EXCEPT !.overClause = [NilOverClause EXCEPT !.nil = FALSE]]
    /\ out' = NoOut
    /\ UNCHANGED <<chain, wq, cv, wv, hist, gor>>

(* w.Over(): creates the clause on first use, returns the stored one. *)
WindowFunction_Over ==
    /\ chain = "WindowFunction"
    /\ wf' = IF wf.overClause.nil
             THEN [wf EXCEPT !.overClause.nil = FALSE]
             ELSE wf
    /\ out' = NoOut
    /\ UNCHANGED <<chain, wq, cv, wv, hist, gor>>

(* o.PartitionBy(exprs...) on the clause returned by w.Over() *)
OverClause_PartitionBy(exprs) ==
    /\ chain = "WindowFunction"
    /\ ~wf.overClause.nil
    /\ wf' = [wf EXCEPT !.overClause.partitionBy = exprs]
    /\ out' = NoOut
    /\ UNCHANGED <<chain, wq, cv, wv, hist, gor>>

(* o.OrderBy(exprs...) *)
OverClause_OrderBy(exprs) ==
    /\ chain = "WindowFunction"
    /\ ~wf.overClause.nil
    /\ wf' = [wf EXCEPT !.overClause.orderBy = exprs]
    /\ out' = NoOut
    /\ UNCHANGED <<chain, wq, cv, wv, hist, gor>>

(* o.Rows(start, end) *)
OverClause_Rows(start, end) ==
    /\ chain = "WindowFunction"
    /\ ~wf.overClause.nil
    /\ wf' = [wf EXCEPT !.overClause.frame = FrameClause("ROWS", start, end)]
    /\ out' = NoOut
    /\ UNCHANGED <<chain, wq, cv, wv, hist, gor>>

(* o.Range(start, end) *)
OverClause_Range(start, end) ==
    /\ chain = "WindowFunction"
    /\ ~wf.overClause.nil
    /\ wf' = [wf EXCEPT !.overClause.frame = FrameClause("RANGE", start, end)]
    /\ out' = NoOut
    /\ UNCHANGED <<chain, wq, cv, wv, hist, gor>>

(* w.As(alias): the SQL of the returned expression; it carries no Vars. *)
WindowFunction_As ==
    /\ chain = "WindowFunction"
    /\ out' = [NoOut EXCEPT !.op = "WindowFunction.As",
                            !.sql = buildSQL(wf),
                            !.vars = <<>>]
    /\ UNCHANGED <<chain, wq, cv, wf, wv, hist, gor>>

(***************************************************************************)
(* field/window.go: the WindowFunc values handed to the views.  A          *)
(* field.WindowFunction is an expr (col, e) plus funcName.                 *)
(***************************************************************************)
WindowFunction(x, sql, vs) ==
    [col |-> x.col, e |-> ClauseExpr(sql, vs), funcName |-> sql]
WindowFuncName(w) == w.funcName

RowNumberFunc == WindowFunction(NewExpr(NoE), <<"ROW_NUMBER", "(", ")">>, <<>>)
RankFunc == WindowFunction(NewExpr(NoE), <<"RANK", "(", ")">>, <<>>)
DenseRankFunc == WindowFunction(NewExpr(NoE), <<"DENSE_RANK", "(", ")">>, <<>>)
(* A Lag that ignores the default value. *)
Lag_DefaultDropped(x, offset, defaultValue) ==
    WindowFunction(x, <<"LAG", "(", "?", ",", SP, "?", ")">>, <<RawExpr(x), offset>>)

(* e.Lag(offset, defaultValue...) *)
Lag(x, offset, defaultValue) ==
    IF Len(defaultValue) > 0
    THEN WindowFunction(x, <<"LAG", "(", "?", ",", SP, "?", ",", SP, "?", ")">>,
                        <<RawExpr(x), offset, defaultValue[1]>>)
    ELSE WindowFunction(x, <<"LAG", "(", "?", ",", SP, "?", ")">>,
                        <<RawExpr(x), offset>>)

(* e.Lead(offset, defaultValue...) *)
Lead(x, offset, defaultValue) ==
    IF Len(defaultValue) > 0
    THEN WindowFunction(x, <<"LEAD", "(", "?", ",", SP, "?", ",", SP, "?", ")">>,
                        <<RawExpr(x), offset, defaultValue[1]>>)
    ELSE WindowFunction(x, <<"LEAD", "(", "?", ",", SP, "?", ")">>,
                        <<RawExpr(x), offset>>)
WindowSum(x) == WindowFunction(x, <<"SUM", "(", "?", ")">>, <<RawExpr(x)>>)
Ntile(x, n) == WindowFunction(x, <<"NTILE", "(", "?", ")">>, <<n>>)

Salary == NewField("salary")
WindowFuncs ==
    {RowNumberFunc, RankFunc, WindowSum(Salary), Ntile(Salary, Lit("4")),
     Lag(Salary, Lit("1"), <<Lit("0")>>), Lag(Salary, Lit("1"), <<>>),
     Lead(Salary, Lit("1"), <<Lit("0")>>)}

(* The function's own argument parameters: the Vars of its expression. *)
ArgumentParameters(w) == w.e.Vars

(***************************************************************************)
(* window.go: frame bounds and the compilers.                              *)
(***************************************************************************)
FrameRows == "ROWS"
FrameRange == "RANGE"
UnboundedPreceding == <<"UNBOUNDED", SP, "PRECEDING">>
Preceding == <<"PRECEDING">>
CurrentRow == <<"CURRENT", SP, "ROW">>
Following == <<"FOLLOWING">>
UnboundedFollowing == <<"UNBOUNDED", SP, "FOLLOWING">>

FrameBoundTypes ==
    {UnboundedPreceding, Preceding, CurrentRow, Following, UnboundedFollowing}
Offsets == {NoE, Lit("2")}
FrameBounds == {FrameBound(t, o) : t \in FrameBoundTypes, o \in Offsets}
FrameSpecs ==
    {FrameSpec(t, s, e) : t \in {FrameRows, FrameRange}, s \in FrameBounds,
                          e \in FrameBounds \cup {NilFrameBound}}
WindowSpecs ==
    {WindowSpec(p, o, f) : p \in ColumnLists, o \in ColumnLists,
                           f \in FrameSpecs \cup {NilFrameSpec}}

buildFrameClause_EndOffsetDropped(frame) ==
    LET r0 == frame.Start.Type
        r1 == IF frame.Start.Offset # NoE THEN <<"?", SP>> \o r0 ELSE r0
    IN IF ~frame.End.nil THEN r1 \o <<SP, "AND", SP>> \o frame.End.Type ELSE r1
(* buildFrameClause(frame) *)
buildFrameClause(frame) ==
    LET r0 == frame.Start.Type
        r1 == IF frame.Start.Offset # NoE THEN <<"?", SP>> \o r0 ELSE r0
        r2 == r1 \o <<SP, "AND", SP>> \o frame.End.Type
    IN IF ~frame.End.nil
       THEN IF frame.End.Offset # NoE
            THEN SubSeq(r2, 1, Len(r2) - Len(frame.End.Type))
                    \o <<"?", SP>> \o frame.End.Type
            ELSE r2
       ELSE r1

(* The PARTITION BY / ORDER BY loops of buildWindowExpression: one         *)
(* placeholder and one parameter per column.                               *)
Placeholders(columns) == Join([i \in 1..Len(columns) |-> <<"?">>], <<",", SP>>)
RawExprs_Reversed(columns) ==
    [i \in 1..Len(columns) |-> RawExpr(columns[Len(columns) + 1 - i])]
RawExprs(columns) == [i \in 1..Len(columns) |-> RawExpr(columns[i])]

(* " OVER (" and the PARTITION BY / ORDER BY parts, built alike by          *)
(* buildWindowExpression and field.WindowFunction.Over.                    *)
OverClauseHead(spec) ==
    <<SP, "OVER", SP, "(">>
      \o (IF Len(spec.PartitionBy) > 0
          THEN <<"PARTITION", SP, "BY", SP>> \o Placeholders(spec.PartitionBy)
          ELSE <<>>)
      \o (IF Len(spec.OrderBy) > 0
          THEN (IF Len(spec.PartitionBy) > 0 THEN <<SP>> ELSE <<>>)
                 \o <<"ORDER", SP, "BY", SP>> \o Placeholders(spec.OrderBy)
          ELSE <<>>)

(* The OVER clause text of buildWindowExpression. *)
OverClauseText(spec) ==
    OverClauseHead(spec)
      \o (IF ~spec.Frame.nil
          THEN <<SP, spec.Frame.Type, SP>> \o buildFrameClause(spec.Frame)
          ELSE <<>>)
      \o <<")">>

(* The vars collected by the two loops of buildWindowExpression. *)
OverClauseVars(spec) == RawExprs(spec.PartitionBy) \o RawExprs(spec.OrderBy)

(* buildWindowExpression(windowFunc, spec): the clause.Expr of the         *)
(* returned field.Expr.                                                    *)
buildWindowExpression(windowFunc, spec) ==
    [fn |-> windowFunc,
     spec |-> spec,
     sql |-> WindowFuncName(windowFunc) \o OverClauseText(spec),
     vars |-> <<RawExpr(windowFunc)>> \o OverClauseVars(spec)]

(* w.Over(spec) of field.WindowFunction: the frame is rendered only for    *)
(* UNBOUNDED PRECEDING .. CURRENT ROW.                                     *)
Over(w, spec) ==
    LET overClause ==
            OverClauseHead(spec)
              \o (IF ~spec.Frame.nil
                  THEN <<SP, spec.Frame.Type, SP>>
                         \o (IF /\ spec.Frame.Start.Type = UnboundedPreceding
                                 /\ ~spec.Frame.End.nil
                                 /\ spec.Frame.End.Type = CurrentRow
                              THEN <<"UNBOUNDED", SP, "PRECEDING", SP, "AND", SP,
                                     "CURRENT", SP, "ROW">>
                              ELSE <<>>)
                  ELSE <<>>)
              \o <<")">>
        sql == w.funcName \o overClause
        allVars == <<RawExpr(w)>> \o OverClauseVars(spec)
    IN [col |-> w.col, e |-> ClauseExpr(sql, allVars), funcName |-> sql]

(***************************************************************************)
(* window.go: windowViewDO.                                                *)
(***************************************************************************)
ViewColumnLists == {<<>>, <<Dept>>}
ViewFrames ==
    {FrameSpec(FrameRows, FrameBound(UnboundedPreceding, NoE),
               FrameBound(CurrentRow, NoE))}
ViewSpecs == {WindowSpec(<<Dept>>, <<>>, NilFrameSpec)}
ViewFuncs == {RowNumberFunc, Lag(Salary, Lit("1"), <<Lit("0")>>)}

(* "append a zero spec if there is none; edit the last one" *)
EditLastSpec(windowSpecs, field, value) ==
    LET specs == IF Len(windowSpecs) = 0 THEN <<ZeroWindowSpec>> ELSE windowSpecs
    IN [specs EXCEPT ![Len(specs)] = [@ EXCEPT ![field] = value]]

(* The loop of Select / As over the window functions: the i-th function is *)
(* paired with the i-th spec, or the zero spec when there is none.         *)
WindowExprs(windowFuncs, windowSpecs) ==
    [i \in 1..Len(windowFuncs) |->
        buildWindowExpression(windowFuncs[i],
                              IF i <= Len(windowSpecs) THEN windowSpecs[i]
                              ELSE ZeroWindowSpec)]

(* History: what the caller of a view asked for. *)
HistWindow == [hist EXCEPT !.calls = Append(@, [spec |-> ZeroWindowSpec, touched |-> FALSE])]
HistEdit(field, value) ==
    IF Len(hist.calls) = 0 THEN [hist EXCEPT !.other = TRUE]
    ELSE [hist EXCEPT !.calls[Len(hist.calls)] =
              [spec |-> [@.spec EXCEPT ![field] = value], touched |-> TRUE]]

(* d.With(): a new window view *)
DO_WithWindow ==
    /\ chain' = "windowViewDO"
    /\ wv' = [windowFuncs |-> <<>>, windowSpecs |-> <<>>]
    /\ wq' = NoWithQuery
    /\ wf' = NoWindowFunction
    /\ cv' = NoCTEView
    /\ hist' = NoHist
    /\ out' = NoOut
    /\ gor' = NoGor

(* w.Window(windowFunc) *)
windowViewDO_Window(windowFunc) ==
    /\ chain = "windowViewDO"
    /\ Len(wv.windowFuncs) < MaxWindows
    /\ wv' = [wv EXCEPT !.windowFuncs = Append(@, windowFunc)]
    /\ hist' = HistWindow
    /\ out' = NoOut
    /\ UNCHANGED <<chain, wq, cv, wf, gor>>

(* w.Over(spec): appends the spec. *)
windowViewDO_Over(spec) ==
    /\ chain = "windowViewDO"
    /\ Len(wv.windowSpecs) < MaxWindows
    /\ wv' = [wv EXCEPT !.windowSpecs = Append(@, spec)]
    /\ hist' = [hist EXCEPT !.other = TRUE]
    /\ out' = NoOut
    /\ UNCHANGED <<chain, wq, cv, wf, gor>>

(* w.PartitionBy(columns...) *)
windowViewDO_PartitionBy(columns) ==
    /\ chain = "windowViewDO"
    /\ wv' = [wv EXCEPT !.windowSpecs = EditLastSpec(@, "PartitionBy", columns)]
    /\ hist' = HistEdit("PartitionBy", columns)
    /\ out' = NoOut
    /\ UNCHANGED <<chain, wq, cv, wf, gor>>

(* w.WindowOrderBy(columns...) *)
windowViewDO_WindowOrderBy(columns) ==
    /\ chain = "windowViewDO"
    /\ wv' = [wv EXCEPT !.windowSpecs = EditLastSpec(@, "OrderBy", columns)]
    /\ hist' = HistEdit("OrderBy", columns)
    /\ out' = NoOut
    /\ UNCHANGED <<chain, wq, cv, wf, gor>>

(* w.Frame(frameSpec) *)
windowViewDO_Frame(frameSpec) ==
    /\ chain = "windowViewDO"
    /\ wv' = [wv EXCEPT !.windowSpecs = EditLastSpec(@, "Frame", frameSpec)]
    /\ hist' = HistEdit("Frame", frameSpec)
    /\ out' = NoOut
    /\ UNCHANGED <<chain, wq, cv, wf, gor>>

(* w.Select(columns...): the window expressions appended to the columns. *)
windowViewDO_Select(columns) ==
    /\ chain = "windowViewDO"
    /\ out' = [NoOut EXCEPT !.op = "windowViewDO.Select",
                            !.args = <<columns>>,
                            !.exprs = WindowExprs(wv.windowFuncs, wv.windowSpecs)]
    /\ UNCHANGED <<chain, wq, cv, wf, wv, hist, gor>>

(***************************************************************************)
(* cte.go: cteViewDO.                                                      *)
(***************************************************************************)
cteImpl(name, query) == [name |-> name, query |-> query]
CTEName(cte) == cte.name
CTEQuery(cte) == cte.query

CteViewFuncs == {RowNumberFunc}
CteViewColumnLists == {<<>>, <<Dept>>}
CteViewFrames ==
    {FrameSpec(FrameRows, FrameBound(UnboundedPreceding, NoE),
               FrameBound(CurrentRow, NoE))}

(* The declared CTE list as (Name, Query) pairs. *)
Declared(ctes) ==
    [i \in 1..Len(ctes) |-> WithClause(CTEName(ctes[i]), CTEQuery(ctes[i]))]

(* The loop of buildCTEQuery: "WITH " and one entry per CTE holding the    *)
(* explained SQL of its query; cteVars is never appended to.               *)
CteSQL(ctes) ==
    <<"WITH", SP>>
      \o Join([i \in 1..Len(ctes) |->
                  SprintfAs(CTEName(ctes[i]), ToSQL(CTEQuery(ctes[i])))],
              <<",", SP>>)
CteVars(ctes) == <<>>

(* c.buildCTEQuery(db): db.Raw(cteSQL + " SELECT * FROM " + c.fromCTE) *)
buildCTEQuery(c, db) ==
    IF Len(c.ctes) = 0 THEN db
    ELSE [db EXCEPT !.SQL = CteSQL(c.ctes)
                              \o <<SP, "SELECT", SP, "*", SP, "FROM", SP>>
                              \o Word(c.fromCTE),
                    !.Vars = CteVars(c.ctes)]

(* WithCTE(name, query): a new CTE view *)
WithCTE(name, query) ==
    /\ chain' = "cteViewDO"
    /\ cv' = [NoCTEView EXCEPT !.ctes = <<cteImpl(name, query)>>]
    /\ wq' = NoWithQuery
    /\ wf' = NoWindowFunction
    /\ wv' = NoWindowView
    /\ hist' = NoHist
    /\ out' = NoOut
    /\ gor' = NoGor

(* c.WithCTE(name, query) *)
cteViewDO_WithCTE(name, query) ==
    /\ chain = "cteViewDO"
    /\ Len(cv.ctes) < MaxCtes
    /\ cv' = [cv EXCEPT !.ctes = Append(@, cteImpl(name, query))]
    /\ out' = NoOut
    /\ UNCHANGED <<chain, wq, wf, wv, hist, gor>>

(* c.FromCTE(cteName) *)
cteViewDO_FromCTE(cteName) ==
    /\ chain = "cteViewDO"
    /\ cv' = [cv EXCEPT !.fromCTE = cteName, !.db.Table = cteName]
    /\ out' = NoOut
    /\ UNCHANGED <<chain, wq, wf, wv, hist, gor>>

(* c.Window(windowFunc) *)
cteViewDO_Window(windowFunc) ==
    /\ chain = "cteViewDO"
    /\ Len(cv.windowFuncs) < MaxWindows
    /\ cv' = [cv EXCEPT !.windowFuncs = Append(@, windowFunc)]
    /\ hist' = HistWindow
    /\ out' = NoOut
    /\ UNCHANGED <<chain, wq, wf, wv, gor>>

(* c.PartitionBy(columns...) *)
cteViewDO_PartitionBy(columns) ==
    /\ chain = "cteViewDO"
    /\ cv' = [cv EXCEPT !.windowSpecs = EditLastSpec(@, "PartitionBy", columns)]
    /\ hist' = HistEdit("PartitionBy", columns)
    /\ out' = NoOut
    /\ UNCHANGED <<chain, wq, wf, wv, gor>>

(* c.WindowOrderBy(columns...) *)
cteViewDO_WindowOrderBy(columns) ==
    /\ chain = "cteViewDO"
    /\ cv' = [cv EXCEPT !.windowSpecs = EditLastSpec(@, "OrderBy", columns)]
    /\ hist' = HistEdit("OrderBy", columns)
    /\ out' = NoOut
    /\ UNCHANGED <<chain, wq, wf, wv, gor>>

(* c.Frame(frameSpec) *)
cteViewDO_Frame(frameSpec) ==
    /\ chain = "cteViewDO"
    /\ cv' = [cv EXCEPT !.windowSpecs = EditLastSpec(@, "Frame", frameSpec)]
    /\ hist' = HistEdit("Frame", frameSpec)
    /\ out' = NoOut
    /\ UNCHANGED <<chain, wq, wf, wv, gor>>

(* What Select and Find hand to the Dao: the Raw statement stored in c.db. *)
CteOut(op, c, db, exprs) ==
    [NoOut EXCEPT !.op = op,
                  !.sql = db.SQL,
                  !.vars = db.Vars,
                  !.ctes = Declared(c.ctes),
                  !.base = <<"SELECT", SP, "*", SP, "FROM", SP>> \o Word(c.fromCTE),
                  !.baseVars = <<>>,
                  !.exprs = exprs]

(* c.Select(columns...), an optional Where on the returned Dao, and the    *)
(* finisher.  The Dao holds the Raw statement of buildCTEQuery, and a      *)
(* statement that already has SQL is executed as it is: the columns and    *)
(* the Where conditions added to it are not built into it.                 *)
cteViewDO_Select(columns, filter) ==
    /\ chain = "cteViewDO"
    /\ LET db == IF Len(cv.ctes) > 0 THEN buildCTEQuery(cv, cv.db) ELSE cv.db
           result == CteOut("cteViewDO.Select", cv, db,
                            WindowExprs(cv.windowFuncs, cv.windowSpecs))
       IN /\ cv' = [cv EXCEPT !.db = db]
          /\ out' = [result EXCEPT
                       !.args = <<columns, filter>>,
                       !.base = IF filter = NoFilter THEN @
                                ELSE @ \o <<SP, "WHERE", SP>> \o filter.sql,
                       !.baseVars = filter.vars]
    /\ UNCHANGED <<chain, wq, wf, wv, hist, gor>>

(* c.Find() *)
cteViewDO_Find ==
    /\ chain = "cteViewDO"
    /\ LET db == IF Len(cv.ctes) > 0 THEN buildCTEQuery(cv, cv.db) ELSE cv.db
       IN /\ cv' = [cv EXCEPT !.db = db]
          /\ out' = CteOut("cteViewDO.Find", cv, db, <<>>)
    /\ UNCHANGED <<chain, wq, wf, wv, hist, gor>>

(***************************************************************************)
(* The compilers called directly, as the tests call them.                  *)
(***************************************************************************)

(* buildWindowExpression(windowFunc, spec) *)
Call_buildWindowExpression(windowFunc, spec) ==
    /\ chain' = "call"
    /\ out' = [NoOut EXCEPT !.op = "buildWindowExpression",
                            !.args = <<windowFunc, spec>>,
                            !.exprs = <<buildWindowExpression(windowFunc, spec)>>]
    /\ UNCHANGED <<wq, cv, wf, wv, hist, gor>>

(* windowFunc.Over(spec) of field.WindowFunction *)
Call_Over(windowFunc, spec) ==
    /\ chain' = "call"
    /\ out' = [NoOut EXCEPT !.op = "field.WindowFunction.Over",
                            !.args = <<windowFunc, spec>>,
                            !.exprs = <<[fn |-> windowFunc,
                                         spec |-> spec,
                                         sql |-> Over(windowFunc, spec).e.SQL,
                                         vars |-> Over(windowFunc, spec).e.Vars]>>]
    /\ UNCHANGED <<wq, cv, wf, wv, hist, gor>>

(* w.Build(builder) of WithClauseExpr *)
Call_WithClauseExpr_Build(w, builder) ==
    /\ chain' = "call"
    /\ out' = [NoOut EXCEPT !.op = "WithClauseExpr.Build",
                            !.args = <<w, builder>>,
                            !.sql = WithClauseExpr_Build(w, builder).sql,
                            !.vars = WithClauseExpr_Build(w, builder).vars]
    /\ UNCHANGED <<wq, cv, wf, wv, hist, gor>>

(* c.Build(builder) of cteImpl: the name, " AS (", the explained SQL of the *)
(* query and ")".                                                          *)
cteImpl_Build(c, builder) ==
    WriteString(
      WriteString(
        WriteString(WriteString(builder, <<c.name>>), <<SP, "AS", SP, "(">>),
        ToSQL(c.query)),
      <<")">>)
Call_cteImpl_Build(c, builder) ==
    /\ chain' = "call"
    /\ out' = [NoOut EXCEPT !.op = "cteImpl.Build",
                            !.args = <<c, builder>>,
                            !.ctes = Declared(<<c>>),
                            !.sql = cteImpl_Build(c, builder).sql,
                            !.vars = cteImpl_Build(c, builder).vars]
    /\ UNCHANGED <<wq, cv, wf, wv, hist, gor>>

(* e.Lag(offset, defaultValue...) and e.Lead(offset, defaultValue...) *)
LagReceivers == {Salary, RawAmount}
LagOffsets == {Lit("1"), Lit("2")}
LagDefaults == SeqsUpTo({Lit("0"), Lit("'none'")}, MaxCols)
Call_Lag(x, offset, defaultValue) ==
    /\ chain' = "call"
    /\ out' = [NoOut EXCEPT !.op = "expr.Lag",
                            !.args = <<x, offset, defaultValue>>,
                            !.exprs = <<Lag(x, offset, defaultValue)>>]
    /\ UNCHANGED <<wq, cv, wf, wv, hist, gor>>
Call_Lead(x, offset, defaultValue) ==
    /\ chain' = "call"
    /\ out' = [NoOut EXCEPT !.op = "expr.Lead",
                            !.args = <<x, offset, defaultValue>>,
                            !.exprs = <<Lead(x, offset, defaultValue)>>]
    /\ UNCHANGED <<wq, cv, wf, wv, hist, gor>>

(* buildFrameClause(frame) *)
Call_buildFrameClause(frame) ==
    /\ chain' = "call"
    /\ out' = [NoOut EXCEPT !.op = "buildFrameClause",
                            !.args = <<frame>>,
                            !.sql = buildFrameClause(frame)]
    /\ UNCHANGED <<wq, cv, wf, wv, hist, gor>>

(***************************************************************************)
(* Two goroutines, each running w.With(name, query).Select() of with.go on *)
(* the *WithQuery it was given: either its own, or one both were given.    *)
(* heap holds the WithQuery objects, ref the object of each goroutine.     *)
(* The append of With is a read of w.withClauses followed by a write, and  *)
(* nothing orders the goroutines' accesses.                                *)
(***************************************************************************)

(* base := d.With(name, query), handed to both goroutines, or one          *)
(* d.With(name, query) per goroutine.                                      *)
Go_Start(shared, name, query) ==
    /\ chain' = "go"
    /\ gor' = [NoGor EXCEPT
                 !.heap = IF shared
                          THEN <<[withClauses |-> <<WithClause(name, query)>>]>>
                          ELSE [g \in Goroutines |->
                                  [withClauses |-> <<WithClause(name, query)>>]],
                 !.ref = [g \in Goroutines |-> IF shared THEN 1 ELSE g],
                 !.base = <<WithClause(name, query)>>,
                 !.pc = [g \in Goroutines |-> "start"]]
    /\ UNCHANGED <<wq, cv, wf, wv, out, hist>>

(* w.With(name, query), first half: append reads w.withClauses. *)
Go_WithRead(g, name, query) ==
    /\ gor.pc[g] = "start"
    /\ gor' = [gor EXCEPT !.pc[g] = "read",
                          !.add[g] = <<WithClause(name, query)>>,
                          !.tmp[g] = gor.heap[gor.ref[g]].withClauses,
                          !.reads[g] = @ \cup {gor.ref[g]}]
    /\ UNCHANGED <<chain, wq, cv, wf, wv, out, hist>>

(* w.With(name, query), second half: the appended slice is stored in w. *)
Go_WithWrite(g) ==
    /\ gor.pc[g] = "read"
    /\ gor' = [gor EXCEPT !.pc[g] = "built",
                          !.heap[gor.ref[g]].withClauses = gor.tmp[g] \o gor.add[g],
                          !.writes[g] = @ \cup {gor.ref[g]}]
    /\ UNCHANGED <<chain, wq, cv, wf, wv, out, hist>>

(* w.Select(): compiles what w.withClauses holds now. *)
Go_Select(g) ==
    /\ gor.pc[g] = "built"
    /\ LET withClauses == gor.heap[gor.ref[g]].withClauses
       IN gor' = [gor EXCEPT !.pc[g] = "done",
                             !.res[g] = [sql |-> WithSQL(withClauses)
                                                  \o <<SP, "SELECT", SP, "*">>,
                                         vars |-> WithArgs(withClauses)],
                             !.reads[g] = @ \cup {gor.ref[g]}]
    /\ UNCHANGED <<chain, wq, cv, wf, wv, out, hist>>

Init ==
    /\ gor = NoGor
    /\ chain = "none"
    /\ wq = NoWithQuery
    /\ cv = NoCTEView
    /\ wf = NoWindowFunction
    /\ wv = NoWindowView
    /\ out = NoOut
    /\ hist = NoHist

NextWith ==
    \/ \E name \in CteNames, query \in SubQueries : DO_With(name, query)
    \/ \E name \in CteNames, query \in SubQueries : WithQuery_With(name, query)
    \/ \E columns \in SelectColumns : WithQuery_Select(columns)
    \/ \E cteName \in CteNames, filter \in Filters : WithQuery_From(cteName, filter)

NextOver ==
    \/ \E function \in Functions : NewWindowFunction(function)
    \/ WindowFunction_Over
    \/ \E exprs \in ColumnLists : OverClause_PartitionBy(exprs)
    \/ \E exprs \in ColumnLists : OverClause_OrderBy(exprs)
    \/ \E start \in StartTexts, end \in EndTexts : OverClause_Rows(start, end)
    \/ \E start \in StartTexts, end \in EndTexts : OverClause_Range(start, end)
    \/ WindowFunction_As

NextWindow ==
    \/ DO_WithWindow
    \/ \E windowFunc \in ViewFuncs : windowViewDO_Window(windowFunc)
    \/ \E spec \in ViewSpecs : windowViewDO_Over(spec)
    \/ \E columns \in ViewColumnLists : windowViewDO_PartitionBy(columns)
    \/ \E columns \in ViewColumnLists : windowViewDO_WindowOrderBy(columns)
    \/ \E frameSpec \in ViewFrames : windowViewDO_Frame(frameSpec)
    \/ \E columns \in SelectColumns : windowViewDO_Select(columns)

NextCTEView ==
    \/ \E name \in CteNames, query \in SubQueries : WithCTE(name, query)
    \/ \E name \in CteNames, query \in SubQueries : cteViewDO_WithCTE(name, query)
    \/ \E cteName \in CteNames : cteViewDO_FromCTE(cteName)
    \/ \E windowFunc \in CteViewFuncs : cteViewDO_Window(windowFunc)
    \/ \E columns \in CteViewColumnLists : cteViewDO_PartitionBy(columns)
    \/ \E columns \in CteViewColumnLists : cteViewDO_WindowOrderBy(columns)
    \/ \E frameSpec \in CteViewFrames : cteViewDO_Frame(frameSpec)
    \/ \E columns \in SelectColumns, filter \in Filters :
          cteViewDO_Select(columns, filter)
    \/ cteViewDO_Find

(* A direct call is made on its own, outside any builder chain. *)
NextCall ==
    /\ chain = "none"
    /\ \/ \E windowFunc \in WindowFuncs, spec \in WindowSpecs :
             Call_buildWindowExpression(windowFunc, spec)
       \/ \E windowFunc \in WindowFuncs, spec \in WindowSpecs :
             Call_Over(windowFunc, spec)
       \/ \E frame \in FrameSpecs : Call_buildFrameClause(frame)
       \/ \E w \in WithClauseExprs, builder \in Builders :
             Call_WithClauseExpr_Build(w, builder)
       \/ \E name \in CteNames, query \in SubQueries, builder \in Builders :
             Call_cteImpl_Build(cteImpl(name, query), builder)
       \/ \E x \in LagReceivers, offset \in LagOffsets, defaultValue \in LagDefaults :
             Call_Lag(x, offset, defaultValue)
       \/ \E x \in LagReceivers, offset \in LagOffsets, defaultValue \in LagDefaults :
             Call_Lead(x, offset, defaultValue)

NextGo ==
    \/ chain = "none" /\ \E shared \in BOOLEAN, name \in CteNames, query \in SubQueries :
                            Go_Start(shared, name, query)
    \/ \E g \in Goroutines, name \in CteNames, query \in SubQueries :
          Go_WithRead(g, name, query)
    \/ \E g \in Goroutines : Go_WithWrite(g)
    \/ \E g \in Goroutines : Go_Select(g)

Next == NextWith \/ NextOver \/ NextWindow \/ NextCTEView \/ NextCall \/ NextGo

Spec == Init /\ [][Next]_vars
SpecWith == Init /\ [][NextWith]_vars
SpecOver == Init /\ [][NextOver]_vars
SpecWindow == Init /\ [][NextWindow]_vars
SpecCTEView == Init /\ [][NextCTEView]_vars
SpecCall == Init /\ [][NextCall]_vars
SpecGo == Init /\ [][NextGo]_vars
SpecCompile == Init /\ [][NextOver \/ NextCall]_vars

(***************************************************************************)
(* Properties.                                                             *)
(***************************************************************************)
CompileOps ==
    {"WithQuery.Select", "WithQuery.From", "cteViewDO.Select", "cteViewDO.Find"}
ExpressionOps == {"buildWindowExpression", "field.WindowFunction.Over"}
ViewSelectOps == {"windowViewDO.Select", "cteViewDO.Select"}
EmptyOver == <<SP, "OVER", SP, "(", ")">>

Contains(text, sub) ==
    \E i \in 1..(Len(text) - Len(sub) + 1) : SubSeq(text, i, i + Len(sub) - 1) = sub

IndexOf(text, lexeme) ==
    CHOOSE i \in 1..Len(text) : text[i] = lexeme /\ \A j \in 1..(i - 1) : text[j] # lexeme

(* The items of the ", "-separated list of lexemes a text starts with. *)
RECURSIVE ListItems(_)
ListItems(text) ==
    IF text = <<>> THEN <<>>
    ELSE IF Len(text) >= 3 /\ text[2] = "," /\ text[3] = SP
         THEN <<text[1]>> \o ListItems(SubSeq(text, 4, Len(text)))
         ELSE <<text[1]>>

(* The list that follows "<keyword> BY " in a text; empty without keyword. *)
ItemsAfter(text, keyword) ==
    IF CountOf(text, keyword) = 0 THEN <<>>
    ELSE ListItems(SubSeq(text, IndexOf(text, keyword) + 4, Len(text)))

ColumnParams(columns) == [i \in 1..Len(columns) |-> RawExpr(columns[i])]
ColumnNames(columns) == [i \in 1..Len(columns) |-> ColumnName(columns[i])]
Repeat(lexeme, n) == [i \in 1..n |-> lexeme]

(* C1: the statement compiled for a non-empty CTE list is "WITH ", one     *)
(* entry "name AS (sub-query SQL)" per declared CTE in declaration order   *)
(* joined by ", ", a single space, and the base query SQL.  The sub-query  *)
(* SQL of an entry may be the placeholder text or the explained text.      *)
ExpectedEntry(cte, explained) ==
    <<cte.Name, SP, "AS", SP, "(">>
      \o (IF explained THEN Explain(cte.Query.sql, cte.Query.vars) ELSE cte.Query.sql)
      \o <<")">>
ExpectedWithList(ctes, pick) ==
    <<"WITH", SP>>
      \o Join([i \in 1..Len(ctes) |-> ExpectedEntry(ctes[i], pick[i])], <<",", SP>>)
C1_WithList ==
    (out.op \in CompileOps /\ Len(out.ctes) > 0)
      => \E pick \in [1..Len(out.ctes) -> BOOLEAN] :
            out.sql = ExpectedWithList(out.ctes, pick) \o <<SP>> \o out.base

(* C2: the parameters of the compiled statement are the parameters of each *)
(* CTE sub-query in declaration order, then the base query's parameters.   *)
DeclaredParams(ctes) == Flatten([i \in 1..Len(ctes) |-> ctes[i].Query.vars])
C2_ParamOrder ==
    (out.op \in CompileOps /\ Len(out.ctes) > 0)
      => out.vars = DeclaredParams(out.ctes) \o out.baseVars

(* C3: a built window expression has as many "?" as parameters, and the    *)
(* parameters are the function's own arguments, then one per partition     *)
(* column, then one per order column, in declared order.                   *)
C3_PlaceholdersMatchParams ==
    (out.op \in ExpressionOps \cup ViewSelectOps)
      => \A i \in 1..Len(out.exprs) :
            LET x == out.exprs[i]
            IN /\ CountOf(x.sql, "?") = Len(x.vars)
               /\ x.vars = ArgumentParameters(x.fn)
                             \o ColumnParams(x.spec.PartitionBy)
                             \o ColumnParams(x.spec.OrderBy)

(* C4: when every Window call of a view was followed by a PartitionBy /    *)
(* WindowOrderBy / Frame call, the view holds one spec per function, the   *)
(* i-th being the one configured after the i-th Window call, and Select    *)
(* pairs each function with it.                                            *)
C4_SpecPerWindow ==
    LET view == IF chain = "windowViewDO" THEN wv ELSE cv
    IN (/\ chain \in {"windowViewDO", "cteViewDO"}
        /\ ~hist.other
        /\ Len(hist.calls) > 0
        /\ \A i \in 1..Len(hist.calls) : hist.calls[i].touched)
         => /\ Len(view.windowSpecs) = Len(view.windowFuncs)
            /\ \A i \in 1..Len(view.windowSpecs) :
                  i <= Len(hist.calls) => view.windowSpecs[i] = hist.calls[i].spec
            /\ out.op \in ViewSelectOps
                 => \A i \in 1..Len(out.exprs) : out.exprs[i].spec = hist.calls[i].spec

(* C5: compiling a CTE list that holds the same name twice fails with a    *)
(* ConfigurationError.                                                     *)
HasDuplicateName(ctes) ==
    \E i, j \in 1..Len(ctes) : i < j /\ ctes[i].Name = ctes[j].Name
C5_DuplicateNamesRejected ==
    (out.op \in CompileOps /\ HasDuplicateName(out.ctes))
      => out.err = "ConfigurationError"

(* C6: a window function with no partition columns, no order columns and   *)
(* no frame compiles to exactly "<FUNC> OVER ()" and its parameters are    *)
(* the function's own arguments, nothing more.                             *)
C6_EmptySpec ==
    /\ (/\ out.op = "WindowFunction.As"
        /\ wf.overClause.partitionBy = <<>>
        /\ wf.overClause.orderBy = <<>>
        /\ wf.overClause.frame.nil)
         => out.sql = wf.Function \o EmptyOver /\ out.vars = <<>>
    /\ (out.op = "buildWindowExpression" /\ out.args[2] = ZeroWindowSpec)
         => /\ out.exprs[1].sql = WindowFuncName(out.args[1]) \o EmptyOver
            /\ out.exprs[1].vars = ArgumentParameters(out.args[1])

(* C7: a frame with only a start bound is rendered without BETWEEN; a      *)
(* frame with both bounds is rendered with exactly one BETWEEN .. AND ..,  *)
(* by buildSQL and by buildFrameClause as used by buildWindowExpression.   *)
C7_Between ==
    /\ (out.op = "WindowFunction.As" /\ ~wf.overClause.frame.nil)
         => LET frame == wf.overClause.frame
            IN IF frame.End = <<>>
               THEN CountOf(out.sql, "BETWEEN") = 0
               ELSE /\ CountOf(out.sql, "BETWEEN") = 1
                    /\ Contains(out.sql, <<"BETWEEN", SP>> \o frame.Start
                                           \o <<SP, "AND", SP>> \o frame.End)
    /\ (out.op = "buildFrameClause")
         => IF out.args[1].End.nil
            THEN CountOf(out.sql, "BETWEEN") = 0
            ELSE CountOf(out.sql, "BETWEEN") = 1 /\ CountOf(out.sql, "AND") = 1
    /\ (out.op = "buildWindowExpression" /\ ~out.args[2].Frame.nil)
         => IF out.args[2].Frame.End.nil
            THEN CountOf(out.exprs[1].sql, "BETWEEN") = 0
            ELSE CountOf(out.exprs[1].sql, "BETWEEN") = 1

(* C8: an order column supplied with a direction keeps it: buildSQL emits  *)
(* the column followed by DESC or ASC; the expression built by             *)
(* buildWindowExpression holds the direction in its text or in the         *)
(* column's own expression.                                                *)
HasDirection(column) ==
    column.e.kind = "expr" /\ column.e.SQL \in {<<"?", SP, "DESC">>, <<"?", SP, "ASC">>}
Direction(column) == column.e.SQL[3]
C8_DirectionKept ==
    /\ out.op = "WindowFunction.As"
         => \A i \in 1..Len(wf.overClause.orderBy) :
               LET column == wf.overClause.orderBy[i]
               IN HasDirection(column)
                    => Contains(out.sql, <<ColumnName(column), SP, Direction(column)>>)
    /\ out.op = "buildWindowExpression"
         => \A i \in 1..Len(out.args[2].OrderBy) :
               LET column == out.args[2].OrderBy[i]
               IN HasDirection(column)
                    => \/ CountOf(out.exprs[1].sql, Direction(column)) > 0
                       \/ \E k \in 1..Len(out.exprs[1].vars) :
                             out.exprs[1].vars[k].SQL = column.e.SQL

(* C9: the PARTITION BY and ORDER BY lists of the emitted OVER clause hold *)
(* one item per supplied column, in the order supplied, repeated columns   *)
(* included; where the items are placeholders, the parameters of the       *)
(* columns follow in the same order.                                       *)
C9_ColumnOrder ==
    /\ out.op = "WindowFunction.As"
         => /\ ItemsAfter(out.sql, "PARTITION") = ColumnNames(wf.overClause.partitionBy)
            /\ ItemsAfter(out.sql, "ORDER") = ColumnNames(wf.overClause.orderBy)
    /\ out.op \in ExpressionOps
         => LET x == out.exprs[1]
                partitionBy == out.args[2].PartitionBy
                orderBy == out.args[2].OrderBy
                n == Len(partitionBy) + Len(orderBy)
            IN /\ ItemsAfter(x.sql, "PARTITION") = Repeat("?", Len(partitionBy))
               /\ ItemsAfter(x.sql, "ORDER") = Repeat("?", Len(orderBy))
               /\ Len(x.vars) >= n
               /\ SubSeq(x.vars, Len(x.vars) - n + 1, Len(x.vars))
                    = ColumnParams(partitionBy) \o ColumnParams(orderBy)
C9_Witness ==
    /\ out.op = "buildWindowExpression"
    /\ out.args[2].PartitionBy = <<Dept, Dept>>
    /\ out.args[2].OrderBy = <<SalaryDesc, Dept>>
    /\ Len(out.exprs[1].vars) = 5

(* C10: a builder call leaves the object it is called on, which earlier    *)
(* calls handed out, as it was: With on a WithQuery; PartitionBy, OrderBy, *)
(* Rows, Range on an OverClause; Window, PartitionBy, WindowOrderBy, Frame *)
(* and FromCTE on a view.                                                  *)
C10_HandedOutUnchanged ==
    [][/\ (\E name \in CteNames, query \in SubQueries : WithQuery_With(name, query))
            => wq' = wq
       /\ (\/ \E exprs \in ColumnLists :
                 OverClause_PartitionBy(exprs) \/ OverClause_OrderBy(exprs)
           \/ \E start \in StartTexts, end \in EndTexts :
                 OverClause_Rows(start, end) \/ OverClause_Range(start, end))
            => wf' = wf
       /\ (\/ \E windowFunc \in ViewFuncs : windowViewDO_Window(windowFunc)
           \/ \E columns \in ViewColumnLists :
                 windowViewDO_PartitionBy(columns) \/ windowViewDO_WindowOrderBy(columns)
           \/ \E frameSpec \in ViewFrames : windowViewDO_Frame(frameSpec))
            => wv' = wv
       /\ (\/ \E cteName \in CteNames : cteViewDO_FromCTE(cteName)
           \/ \E windowFunc \in CteViewFuncs : cteViewDO_Window(windowFunc)
           \/ \E columns \in CteViewColumnLists :
                 cteViewDO_PartitionBy(columns) \/ cteViewDO_WindowOrderBy(columns)
           \/ \E frameSpec \in CteViewFrames : cteViewDO_Frame(frameSpec))
            => cv' = cv]_vars

(* C11: two goroutines that build and compile concurrently never write an  *)
(* object the other one reads or writes, and each obtains the SQL and the  *)
(* parameters it would obtain running alone.                               *)
AloneResult(g) ==
    [sql |-> WithSQL(gor.base \o gor.add[g]) \o <<SP, "SELECT", SP, "*">>,
     vars |-> WithArgs(gor.base \o gor.add[g])]
C11_GoroutinesIndependent ==
    \A g \in Goroutines :
       /\ \A h \in Goroutines \ {g} :
             gor.writes[g] \cap (gor.reads[h] \cup gor.writes[h]) = {}
       /\ gor.pc[g] = "done" => gor.res[g] = AloneResult(g)

(* C12: a compilation leaves the builder it compiles as it was, and        *)
(* compiling the same specification again yields the same SQL and the same *)
(* parameters (Find after Select on a CTE view included).                  *)
CteCompileOps == {"cteViewDO.Select", "cteViewDO.Find"}
SameCompilation(first, second) ==
    \/ first.op = second.op /\ first.args = second.args
    \/ first.op \in CteCompileOps /\ second.op \in CteCompileOps
C12_Idempotent ==
    [][out'.op # "none"
         => /\ wq' = wq /\ wf' = wf /\ wv' = wv /\ cv' = cv
            /\ (out.op # "none" /\ SameCompilation(out, out'))
                 => /\ out'.sql = out.sql
                    /\ out'.vars = out.vars
                    /\ (out'.op = out.op => out'.exprs = out.exprs)]_vars

(* C13: every frame offset rendered as "?" has its value in the parameter  *)
(* list of the window expression, after the partition and order            *)
(* parameters, the start offset before the end offset.                     *)
FrameOffsets(frame) ==
    IF frame.nil THEN <<>>
    ELSE (IF frame.Start.Offset # NoE THEN <<frame.Start.Offset>> ELSE <<>>)
           \o (IF ~frame.End.nil /\ frame.End.Offset # NoE
               THEN <<frame.End.Offset>> ELSE <<>>)
C13_OffsetParams ==
    out.op = "buildWindowExpression"
      => LET x == out.exprs[1]
             spec == out.args[2]
             expected == ColumnParams(spec.PartitionBy) \o ColumnParams(spec.OrderBy)
                           \o FrameOffsets(spec.Frame)
         IN (CountOf(x.sql, "?") > CountOf(WindowFuncName(out.args[1]), "?")
                                     + Len(spec.PartitionBy) + Len(spec.OrderBy))
              => /\ Len(x.vars) >= Len(expected)
                 /\ SubSeq(x.vars, Len(x.vars) - Len(expected) + 1, Len(x.vars)) = expected

(* C14: the frame ROWS from 2 PRECEDING to 2 FOLLOWING renders as exactly  *)
(* "ROWS BETWEEN 2 PRECEDING AND 2 FOLLOWING", through Rows and buildSQL   *)
(* and through a FrameSpec and buildWindowExpression (where the offsets    *)
(* may stand as placeholders).                                             *)
Rows2To2 ==
    <<"ROWS", SP, "BETWEEN", SP, "2", SP, "PRECEDING", SP, "AND", SP, "2", SP, "FOLLOWING">>
Rows2To2Bound ==
    <<"ROWS", SP, "BETWEEN", SP, "?", SP, "PRECEDING", SP, "AND", SP, "?", SP, "FOLLOWING">>
C14_Rows2Preceding2Following ==
    /\ (/\ out.op = "WindowFunction.As"
        /\ wf.overClause.frame = FrameClause("ROWS", <<"2", SP, "PRECEDING">>,
                                             <<"2", SP, "FOLLOWING">>))
         => Contains(out.sql, Rows2To2 \o <<")">>)
    /\ (/\ out.op = "buildWindowExpression"
        /\ out.args[2].Frame = FrameSpec(FrameRows, FrameBound(Preceding, Lit("2")),
                                         FrameBound(Following, Lit("2"))))
         => \/ Contains(out.exprs[1].sql, Rows2To2 \o <<")">>)
            \/ Contains(out.exprs[1].sql, Rows2To2Bound \o <<")">>)

(* C15: rendering a frame in which a PRECEDING or FOLLOWING bound has no   *)
(* offset, or another bound has one, fails with a ConfigurationError and   *)
(* emits no frame text.                                                    *)
InvalidBound(bound) ==
    /\ ~bound.nil
    /\ (bound.Type \in {Preceding, Following}) = (bound.Offset = NoE)
InvalidFrame(frame) == InvalidBound(frame.Start) \/ InvalidBound(frame.End)
C15_FrameErrors ==
    /\ (out.op = "buildFrameClause" /\ InvalidFrame(out.args[1]))
         => out.err = "ConfigurationError" /\ out.sql = <<>>
    /\ (/\ out.op = "buildWindowExpression"
        /\ ~out.args[2].Frame.nil
        /\ InvalidFrame(out.args[2].Frame))
         => out.err = "ConfigurationError" /\ out.exprs = <<>>

(* C16: selecting from a CTE keeps the statement of the CTE-targeted query *)
(* and puts the WITH list in front of it: the statement starts with WITH,  *)
(* ends with the base statement (target relation and filters) and its      *)
(* parameters end with the base statement's parameters.                    *)
EndsWith(text, tail) ==
    /\ Len(text) >= Len(tail)
    /\ SubSeq(text, Len(text) - Len(tail) + 1, Len(text)) = tail
C16_WithInFront ==
    (\/ out.op = "WithQuery.From"
     \/ out.op = "cteViewDO.Select" /\ cv.fromCTE # "")
      => /\ out.sql # <<>> /\ out.sql[1] = "WITH"
         /\ EndsWith(out.sql, out.base)
         /\ EndsWith(out.vars, out.baseVars)
         /\ LET relation == IF out.op = "WithQuery.From" THEN out.args[1]
                             ELSE cv.fromCTE
            IN \/ Contains(out.sql, <<"FROM", SP, relation>>)
               \/ Contains(out.sql, <<"FROM", SP, Quote(relation)>>)

(* C17: one CTE "ranked" whose sub-query binds u1 and u2, selected with    *)
(* From("ranked") and filtered by rn = 1, compiles to                      *)
(* WITH ranked AS (<sub-query SQL>) SELECT * FROM ranked WHERE rn = ?      *)
(* with the parameters u1, u2, 1.                                          *)
C17_RankedScenario ==
    (/\ out.op = "WithQuery.From"
     /\ out.ctes = <<WithClause("ranked", QFiltered)>>
     /\ out.args = <<"ranked", RnEq1>>)
      => /\ \E relation \in {"ranked", Quote("ranked")} :
               out.sql = <<"WITH", SP, "ranked", SP, "AS", SP, "(">> \o QFiltered.sql
                           \o <<")", SP, "SELECT", SP, "*", SP, "FROM", SP, relation,
                                SP, "WHERE", SP, "rn", SP, "=", SP, "?">>
         /\ out.vars = <<Lit("'u1'"), Lit("'u2'"), Lit("1")>>

(* C19: a composition whose base query is empty or incomplete is rejected  *)
(* with a ConfigurationError and no statement is produced for it.          *)
IncompleteBase(base) ==
    \/ base = <<>>
    \/ CountOf(base, "FROM") = 0
    \/ base[Len(base)] = SP
C19_EmptyBaseRejected ==
    (out.op \in CompileOps /\ IncompleteBase(out.base))
      => out.err = "ConfigurationError" /\ out.sql = <<>>

(* C18: buildSQL emits the function text, " OVER (", the PARTITION BY list *)
(* if partition columns are set, the ORDER BY list if order columns are    *)
(* set, the frame (unit, then bounds) if a frame is set, and ")"; the      *)
(* parts inside the parentheses are separated by one space and the lists   *)
(* are joined by ", ".                                                     *)
RECURSIVE CommaList(_)
CommaList(items) ==
    IF items = <<>> THEN <<>>
    ELSE IF Len(items) = 1 THEN <<items[1]>>
    ELSE <<items[1], ",", SP>> \o CommaList(Tail(items))
Between(first, second) == IF first # <<>> /\ second # <<>> THEN <<SP>> ELSE <<>>
ExpectedOverClause(o) ==
    LET partition == IF Len(o.partitionBy) > 0
                     THEN <<"PARTITION", SP, "BY", SP>> \o CommaList(ColumnNames(o.partitionBy))
                     ELSE <<>>
        order == IF Len(o.orderBy) > 0
                 THEN <<"ORDER", SP, "BY", SP>> \o CommaList(ColumnNames(o.orderBy))
                 ELSE <<>>
        frame == IF o.frame.nil THEN <<>>
                 ELSE <<o.frame.Type, SP>>
                        \o (IF o.frame.End # <<>>
                            THEN <<"BETWEEN", SP>> \o o.frame.Start
                                   \o <<SP, "AND", SP>> \o o.frame.End
                            ELSE o.frame.Start)
    IN partition \o Between(partition, order \o frame)
         \o order \o Between(order, frame) \o frame
C18_PartOrder ==
    out.op = "WindowFunction.As"
      => out.sql = wf.Function \o <<SP, "OVER", SP, "(">>
                     \o ExpectedOverClause(wf.overClause) \o <<")">>
C18_Witness ==
    /\ out.op = "WindowFunction.As"
    /\ Len(wf.overClause.partitionBy) = 2
    /\ Len(wf.overClause.orderBy) = 2
    /\ ~wf.overClause.frame.nil
    /\ wf.overClause.frame.End # <<>>
    /\ Len(out.sql) > 30

(* C20: buildFrameClause returns the start bound's text, with "? " in      *)
(* front exactly when the start offset is set, followed, exactly when an   *)
(* end bound is present, by " AND " and the end bound's text, with "? " in *)
(* front exactly when the end offset is set; nothing else.                 *)
BoundText(bound) ==
    (IF bound.Offset # NoE THEN <<"?", SP>> ELSE <<>>) \o bound.Type
C20_FrameClauseText ==
    out.op = "buildFrameClause"
      => LET frame == out.args[1]
         IN /\ out.sql = BoundText(frame.Start)
                           \o (IF frame.End.nil THEN <<>>
                               ELSE <<SP, "AND", SP>> \o BoundText(frame.End))
            /\ CountOf(out.sql, frame.Type) = 0
C20_Witness ==
    /\ out.op = "buildFrameClause"
    /\ out.args[1].Start.Offset # NoE
    /\ ~out.args[1].End.nil
    /\ out.args[1].End.Offset # NoE
    /\ CountOf(out.sql, "?") = 2

(* C21: WithClauseExpr.Build appends exactly its SQL text to the builder's *)
(* output and every element of Args, in order and once each, to the        *)
(* builder's variables.                                                    *)
C21_BuildAppends ==
    out.op = "WithClauseExpr.Build"
      => LET w == out.args[1]
             builder == out.args[2]
         IN /\ out.sql = builder.sql \o w.SQL
            /\ out.vars = builder.vars \o w.Args
            /\ Len(out.vars) - Len(builder.vars) = Len(w.Args)

(* C22: Count, Sum, Avg, Max and Min return the Function text NAME(x),     *)
(* where x is the column name of a plain column and the text of the raw    *)
(* expression of an expression that has no column name; x is never empty   *)
(* for such an expression.                                                 *)
AggregateNames == {"COUNT", "SUM", "AVG", "MAX", "MIN"}
C22_AggregateText ==
    chain = "WindowFunction"
      => \A name \in AggregateNames, x \in AggregateArgs :
           wf.Function = Aggregate(name, x)
             => LET arg == SubSeq(wf.Function, 3, Len(wf.Function) - 1)
                IN /\ wf.Function[1] = name
                   /\ wf.Function[2] = "("
                   /\ wf.Function[Len(wf.Function)] = ")"
                   /\ ColumnName(x) # "" => arg = <<ColumnName(x)>>
                   /\ (ColumnName(x) = "" /\ RawExpr(x) # NoE)
                        => /\ arg # <<>>
                           /\ arg \in {RawExpr(x).SQL, SprintfS(RawExpr(x))}

(* C23: the body of every CTE entry a compiling operation emits is the SQL *)
(* obtained by compiling the sub-query, never the sub-query's not yet      *)
(* built statement buffer, so WithQuery.Select, WithQuery.From,            *)
(* cteImpl.Build and buildCTEQuery place the same text for the same        *)
(* sub-query.                                                              *)
EntryOps == CompileOps \cup {"cteImpl.Build"}
C23_EntryIsCompiledSQL ==
    out.op \in EntryOps
      => \A i \in 1..Len(out.ctes) :
           Contains(out.sql, SprintfAs(out.ctes[i].Name, ToSQL(out.ctes[i].Query)))

(* C24: in every reachable state of a WithQuery and of a cteViewDO the CTE *)
(* list is non-empty, so every "WITH " a compiling operation emits is      *)
(* followed by the name of a CTE.                                          *)
WithIsFollowedByName(text) ==
    \A i \in 1..Len(text) :
      text[i] = "WITH"
        => /\ i + 2 <= Len(text)
           /\ text[i + 1] = SP
           /\ text[i + 2] \in CteNames
C24_ListNonEmpty ==
    /\ chain = "WithQuery" => Len(wq.withClauses) >= 1
    /\ chain = "cteViewDO" => Len(cv.ctes) >= 1
    /\ \A i \in 1..Len(gor.heap) : Len(gor.heap[i].withClauses) >= 1
    /\ out.op \in CompileOps
         => /\ Len(out.ctes) >= 1
            /\ Contains(out.sql, <<"WITH", SP>>)
            /\ WithIsFollowedByName(out.sql)
    /\ \A g \in Goroutines :
         gor.pc[g] = "done" => WithIsFollowedByName(gor.res[g].sql)
C24_Witness ==
    /\ out.op \in CompileOps
    /\ Len(out.ctes) = 2
    /\ Contains(out.sql, <<"WITH", SP>>)

(* C25: DO.With creates a list holding exactly the one given clause; every *)
(* WithQuery.With appends exactly one clause at the end and leaves the     *)
(* earlier clauses and their order unchanged, so the list is the clauses   *)
(* of the calls in call order.                                             *)
C25_AppendInCallOrder ==
    [][\A name \in CteNames, query \in SubQueries :
         /\ DO_With(name, query)
              => wq'.withClauses = <<[Name |-> name, Query |-> query]>>
         /\ WithQuery_With(name, query)
              => /\ Len(wq'.withClauses) = Len(wq.withClauses) + 1
                 /\ SubSeq(wq'.withClauses, 1, Len(wq.withClauses)) = wq.withClauses
                 /\ wq'.withClauses[Len(wq'.withClauses)]
                      = [Name |-> name, Query |-> query]]_vars
C25_Witness ==
    /\ chain = "WithQuery"
    /\ Len(wq.withClauses) = 2
    /\ wq.withClauses[1] # wq.withClauses[2]

(* C26: Lag and Lead emit three placeholders and the three parameters      *)
(* (column, offset, default) when a default value is given, two            *)
(* placeholders and the parameters (column, offset) when none is given;    *)
(* the function text has as many placeholders as there are parameters.     *)
LagOps == {"expr.Lag", "expr.Lead"}
LagName(op) == IF op = "expr.Lag" THEN "LAG" ELSE "LEAD"
C26_LagLeadParams ==
    out.op \in LagOps
      => LET x == out.args[1]
             offset == out.args[2]
             defaultValue == out.args[3]
             fn == out.exprs[1]
         IN /\ fn.e.SQL = WindowFuncName(fn)
            /\ CountOf(WindowFuncName(fn), "?") = Len(fn.e.Vars)
            /\ IF Len(defaultValue) > 0
               THEN /\ WindowFuncName(fn)
                         = <<LagName(out.op), "(", "?", ",", SP, "?", ",", SP, "?", ")">>
                    /\ fn.e.Vars = <<RawExpr(x), offset, defaultValue[1]>>
               ELSE /\ WindowFuncName(fn)
                         = <<LagName(out.op), "(", "?", ",", SP, "?", ")">>
                    /\ fn.e.Vars = <<RawExpr(x), offset>>
C26_Witness ==
    /\ out.op = "expr.Lag"
    /\ Len(out.args[3]) = 2
    /\ Len(out.exprs[1].e.Vars) = 3

(* C27: the text buildWindowExpression emits between "OVER (" and the      *)
(* closing ")" neither starts nor ends with a space and never holds two    *)
(* consecutive spaces, whichever of the partition, order and frame parts   *)
(* are present.                                                            *)
InsideOver(text) == SubSeq(text, IndexOf(text, "OVER") + 3, Len(text) - 1)
WellSpaced(text) ==
    \/ text = <<>>
    \/ /\ text[1] # SP
       /\ text[Len(text)] # SP
       /\ \A i \in 1..(Len(text) - 1) : ~(text[i] = SP /\ text[i + 1] = SP)
C27_OverClauseSpacing ==
    out.op = "buildWindowExpression" => WellSpaced(InsideOver(out.exprs[1].sql))

(* C28: every statement cteViewDO.Select or cteViewDO.Find produces names  *)
(* a non-empty relation after "SELECT * FROM", also when FromCTE was never *)
(* called on the view.                                                     *)
SelectStarFrom == <<"SELECT", SP, "*", SP, "FROM", SP>>
NamesRelation(text) ==
    /\ Len(text) > Len(SelectStarFrom)
    /\ SubSeq(text, Len(text) - Len(SelectStarFrom), Len(text) - 1) = SelectStarFrom
    /\ text[Len(text)] \notin {SP, ")", "(", ","}
C28_RelationNamed ==
    out.op \in CteCompileOps => NamesRelation(out.sql)

(* C29: field.WindowFunction.Over(spec) and buildWindowExpression(fn, spec) *)
(* produce the same SQL text and the same parameters for every combination *)
(* of partition columns, order columns and frame.                          *)
C29_SameAsOver ==
    out.op = "buildWindowExpression"
      => LET fn == out.args[1]
             spec == out.args[2]
         IN /\ out.exprs[1].sql = Over(fn, spec).e.SQL
            /\ out.exprs[1].vars = Over(fn, spec).e.Vars

(* C30: WindowFunction.Over() creates the OVER clause on the first call    *)
(* and returns the same clause, not reset, on later calls; PartitionBy,    *)
(* OrderBy, Rows and Range each replace only their own field of the clause *)
(* and leave the others as they were, and As compiles the values last set. *)
C30_SettersIndependent ==
    [][/\ WindowFunction_Over
            => /\ wf.overClause.nil
                    => wf'.overClause = [nil |-> FALSE, partitionBy |-> <<>>,
                                         orderBy |-> <<>>, frame |-> NilFrameClause]
               /\ ~wf.overClause.nil => wf'.overClause = wf.overClause
               /\ wf'.Function = wf.Function
       /\ \A exprs \in ColumnLists :
            /\ OverClause_PartitionBy(exprs)
                 => /\ wf'.overClause.partitionBy = exprs
                    /\ wf'.overClause.orderBy = wf.overClause.orderBy
                    /\ wf'.overClause.frame = wf.overClause.frame
                    /\ wf'.Function = wf.Function
            /\ OverClause_OrderBy(exprs)
                 => /\ wf'.overClause.orderBy = exprs
                    /\ wf'.overClause.partitionBy = wf.overClause.partitionBy
                    /\ wf'.overClause.frame = wf.overClause.frame
                    /\ wf'.Function = wf.Function
       /\ \A start \in StartTexts, end \in EndTexts :
            /\ OverClause_Rows(start, end)
                 => /\ wf'.overClause.frame
                         = [nil |-> FALSE, Type |-> "ROWS", Start |-> start, End |-> end]
                    /\ wf'.overClause.partitionBy = wf.overClause.partitionBy
                    /\ wf'.overClause.orderBy = wf.overClause.orderBy
                    /\ wf'.Function = wf.Function
            /\ OverClause_Range(start, end)
                 => /\ wf'.overClause.frame
                         = [nil |-> FALSE, Type |-> "RANGE", Start |-> start, End |-> end]
                    /\ wf'.overClause.partitionBy = wf.overClause.partitionBy
                    /\ wf'.overClause.orderBy = wf.overClause.orderBy
                    /\ wf'.Function = wf.Function
       /\ WindowFunction_As
            => /\ wf' = wf
               /\ out'.sql = wf.Function \o <<SP, "OVER", SP, "(">>
                               \o ExpectedOverClause(wf.overClause) \o <<")">>]_vars
C30_Witness ==
    /\ out.op = "WindowFunction.As"
    /\ ~wf.overClause.nil
    /\ wf.overClause.partitionBy = <<Dept>>
    /\ wf.overClause.orderBy = <<SalaryDesc>>
    /\ ~wf.overClause.frame.nil
    /\ wf.overClause.frame.Type = "RANGE"
====
